---- MODULE Spec2Model ----
(***************************************************************************)
(* State-machine model of sdr_record (RTT::SDR_RECORD and main): argument  *)
(* validation, construction of the pipeline stages, the run() wait loop,   *)
(* the SIGINT handler and the two worker threads that share the queues.    *)
(***************************************************************************)
EXTENDS Integers, Sequences, FiniteSets, TLC

\* ------------------------------------------------------------------ bounds
\* number of sample buffers the stream source produces in one run
MaxSamples == 2
\* number of SIGINT deliveries in one run
MaxSignals == 2

\* ------------------------------------------------------------- constants
\* SDR_RECORD* SDR_RECORD::m_pInstance = NULL;
NULL == 0

\* threads of the process a signal can be delivered to
Threads == {"main", "sdr", "dsp"}
\* SDR_RECORD objects that can exist: the one main constructs and the one a
\* handler constructs when it calls instance() while m_pInstance is NULL
Objs == {1, 2}

\* <syslog.h> priorities used by the program
Priority ==
    [LOG_EMERG |-> 0, LOG_ALERT |-> 1, LOG_CRIT |-> 2, LOG_ERR |-> 3,
     LOG_WARNING |-> 4, LOG_NOTICE |-> 5, LOG_INFO |-> 6, LOG_DEBUG |-> 7]

\* LOG_UPTO(pri): mask of all priorities through pri
LOG_UPTO(pri) == 2 ^ (pri + 1) - 1

\* LOG_MASK(pri) & mask: does the mask let priority pri through
MaskAllows(mask, pri) == (mask \div (2 ^ pri)) % 2 = 1

\* ------------------------------------------------- command line (inputs)
\* an option is either absent from argv or given with a value
Opt(vals) ==
    {[given |-> FALSE, val |-> 0]} \cup {[given |-> TRUE, val |-> v] : v \in vals}

StrOpt(vals) ==
    {[given |-> FALSE, val |-> ""]} \cup {[given |-> TRUE, val |-> v] : v \in vals}

RunValues == {0, 7}
GainValues == {-5, 0}
RateValues == {2000000}
FreqValues == {150000000}
DirValues == {"/tmp/run"}
VerboseValues == {7}

CommandLines ==
    [help : BOOLEAN,
     gain : Opt(GainValues),
     sampling_freq : Opt(RateValues),
     center_freq : Opt(FreqValues),
     run : Opt(RunValues),
     output : StrOpt(DirValues),
     verbose : Opt(VerboseValues)]

\* struct cmd_args with its default member initialisers
cmd_args ==
    [gain |-> -1, rate |-> 0, rx_freq |-> 0, run_num |-> 0, data_dir |-> ""]

VARIABLES
    argv,           \* the command line the process was started with
    args,           \* SDR_RECORD::args
    verbosity,      \* local of process_args
    logmask,        \* the process's syslog mask
    log,            \* syslog() calls made so far
    usage,          \* TRUE once the option description was printed to stdout
    pc,             \* position of the controlling (main) thread
    program,        \* the object main obtained from new / instance()
    proc,           \* "alive", "exited" (exit or return from main), "aborted"
    exit_status,    \* exit status once proc = "exited"
    m_pInstance,    \* SDR_RECORD::m_pInstance: NULL or an object
    constructed,    \* number of SDR_RECORD constructor runs
    sigint,         \* disposition of SIGINT: "SIG_DFL" or "sig_handler"
    program_on,     \* program_on of each object
    run_mutex,      \* owner of run_mutex of each object, "none" when free
    notified,       \* run_var: the waiting controller has been notified
    stages,         \* which of sdr, dsp, localizer have been constructed
    meta_file,      \* "none", "written" or "open_failed"
    calls,          \* invocation counts of the collaborator operations
    sdr_thread,     \* acquisition thread: "none", "running", "pushing", "done"
    dsp_thread,     \* processing thread: "none", "running", "done"
    stop_req,       \* stop requests made by stopStreaming / stopProcessing
    sdr_queue,      \* std::queue of sample buffers
    ping_queue,     \* std::queue of pings
    pushed,         \* number of buffers the stream source has pushed
    consumed,       \* buffers the processing stage has popped, in order
    h,              \* position of sig_handler on each thread, "idle" if none
    signals         \* SIGINT deliveries so far

vars ==
    <<argv, args, verbosity, logmask, log, usage, pc, program, proc, exit_status,
      m_pInstance, constructed, sigint, program_on, run_mutex, notified,
      stages, meta_file, calls, sdr_thread, dsp_thread, stop_req, sdr_queue,
      ping_queue, pushed, consumed, h, signals>>

\* variables of the argument/validation part
cfg_vars == <<argv, args, verbosity, logmask, usage>>
\* variables of the singleton and the signal machinery
sig_vars == <<m_pInstance, constructed, sigint, program_on, run_mutex, notified, h, signals>>
\* variables of the pipeline
pipe_vars == <<sdr_thread, dsp_thread, stop_req, sdr_queue, ping_queue, pushed, consumed>>

\* syslog(pri, msg): the call is recorded with whether the mask lets it out
syslog(l, mask, pri, msg) ==
    l \cup {[pri |-> pri, msg |-> msg, shown |-> MaskAllows(mask, Priority[pri])]}

Init ==
    /\ argv \in CommandLines
    /\ args = cmd_args
    /\ verbosity = 0
    /\ logmask = LOG_UPTO(7)
    /\ log = {}
    /\ usage = FALSE
    /\ pc = "main"
    /\ program = NULL
    /\ proc = "alive"
    /\ exit_status = 0
    /\ m_pInstance = NULL
    /\ constructed = 0
    /\ sigint = "SIG_DFL"
    /\ program_on = [o \in Objs |-> TRUE]
    /\ run_mutex = [o \in Objs |-> "none"]
    /\ notified = FALSE
    /\ stages = {}
    /\ meta_file = "none"
    /\ calls = [print_meta_data |-> 0, startProcessing |-> 0, startStreaming |-> 0,
                stopStreaming |-> 0, stopProcessing |-> 0]
    /\ sdr_thread = "none"
    /\ dsp_thread = "none"
    /\ stop_req = {}
    /\ sdr_queue = <<>>
    /\ ping_queue = <<>>
    /\ pushed = 0
    /\ consumed = <<>>
    /\ h = [t \in Threads |-> "idle"]
    /\ signals = 0

\* the controlling thread can take a step: the process lives and no handler
\* is running on top of it
MainRuns == proc = "alive" /\ h["main"] = "idle"

\* exit(status)
Exit(status) ==
    /\ proc' = "exited"
    /\ exit_status' = status
    /\ pc' = "exit"

\* ------------------------------------------------------------------ main
\* main(): openlog, setlogmask(LOG_UPTO(4)), syslog, then instance()
main_openlog ==
    /\ MainRuns
    /\ pc = "main"
    /\ logmask' = LOG_UPTO(4)
    /\ log' = syslog(log, LOG_UPTO(4), "LOG_INFO", "Getting command line options")
    /\ pc' = "instance"
    /\ UNCHANGED <<argv, args, verbosity, usage, program, proc, exit_status>>
    /\ UNCHANGED <<stages, meta_file, calls, sig_vars, pipe_vars>>

\* SDR_RECORD::SDR_RECORD(): syslog, then signal(SIGINT, sig_handler)
Construct ==
    /\ constructed' = constructed + 1
    /\ log' = syslog(log, logmask, "LOG_INFO", "Setting signal handler")
    /\ sigint' = "sig_handler"

\* instance(), first half: m_pInstance is NULL, so new SDR_RECORD runs the
\* constructor; its result is not yet stored in m_pInstance
main_instance_new ==
    /\ MainRuns
    /\ pc = "instance"
    /\ IF m_pInstance = NULL
       THEN /\ Construct
            /\ program' = constructed + 1
            /\ pc' = "instance_assign"
       ELSE /\ program' = m_pInstance
            /\ pc' = "process_args"
            /\ UNCHANGED <<constructed, log, sigint>>
    /\ UNCHANGED <<cfg_vars, proc, exit_status, stages, meta_file, calls, pipe_vars>>
    /\ UNCHANGED <<m_pInstance, program_on, run_mutex, notified, h, signals>>

\* instance(), second half: m_pInstance = <the new object>; return m_pInstance
main_instance_assign ==
    /\ MainRuns
    /\ pc = "instance_assign"
    /\ m_pInstance' = program
    /\ pc' = "process_args"
    /\ UNCHANGED <<cfg_vars, log, program, proc, exit_status, stages, meta_file, calls>>
    /\ UNCHANGED <<constructed, sigint, program_on, run_mutex, notified, h, signals>>
    /\ UNCHANGED pipe_vars

\* ---------------------------------------------------------- process_args
\* po::store / notify: an option that is given overwrites its field of args
Parsed(line, a) ==
    [gain |-> IF line.gain.given THEN line.gain.val ELSE a.gain,
     rate |-> IF line.sampling_freq.given THEN line.sampling_freq.val ELSE a.rate,
     rx_freq |-> IF line.center_freq.given THEN line.center_freq.val ELSE a.rx_freq,
     run_num |-> IF line.run.given THEN line.run.val ELSE a.run_num,
     data_dir |-> IF line.output.given THEN line.output.val ELSE a.data_dir]

\* CheckOrder with the gain examined before the run number
CheckOrder_gain_first == <<"gain", "run_num", "data_dir", "rx_freq", "rate">>

\* the order in which process_args examines the fields of args
CheckOrder == <<"run_num", "gain", "data_dir", "rx_freq", "rate">>

\* Rejects without the check of the sample rate
Rejects_no_rate(f, a) ==
    CASE f = "run_num" -> a.run_num = 0
      [] f = "gain" -> a.gain < 0
      [] f = "data_dir" -> a.data_dir = ""
      [] f = "rx_freq" -> a.rx_freq = 0
      [] f = "rate" -> FALSE

\* the condition under which process_args rejects a field
Rejects(f, a) ==
    CASE f = "run_num" -> a.run_num = 0
      [] f = "gain" -> a.gain < 0
      [] f = "data_dir" -> a.data_dir = ""
      [] f = "rx_freq" -> a.rx_freq = 0
      [] f = "rate" -> a.rate = 0

\* the LOG_ERR message of each check
ErrMsg(f) ==
    CASE f = "run_num" -> "Must set run number"
      [] f = "gain" -> "Must set gain"
      [] f = "data_dir" -> "Must set directory"
      [] f = "rx_freq" -> "Must set freq"
      [] f = "rate" -> "Must set rate"

\* the LOG_DEBUG message after a check has passed
GotMsg(f) ==
    CASE f = "run_num" -> "Got run_num"
      [] f = "gain" -> "Got gain"
      [] f = "data_dir" -> "Got data_dir"
      [] f = "rx_freq" -> "Got rx_freq"
      [] f = "rate" -> "Got rate"

IndexIn(seq, x) == CHOOSE i \in 1..Len(seq) : seq[i] = x

\* where control goes after the check of field f has passed
AfterCheck(f) ==
    IF IndexIn(CheckOrder, f) = Len(CheckOrder)
    THEN "init_new_sdr"
    ELSE CheckOrder[IndexIn(CheckOrder, f) + 1]

\* lines 88-110 and 147: parse, --help, setlogmask(LOG_UPTO(verbosity))
process_args_parse ==
    /\ MainRuns
    /\ pc = "process_args"
    /\ args' = Parsed(argv, args)
    /\ verbosity' = IF argv.verbose.given THEN argv.verbose.val ELSE verbosity
    /\ IF argv.help
       THEN /\ usage' = TRUE
            /\ Exit(0)
            /\ UNCHANGED <<logmask, log>>
       ELSE /\ logmask' = LOG_UPTO(verbosity')
            /\ log' = syslog(log, logmask', "LOG_INFO", "Sanity checking args")
            /\ pc' = CheckOrder[1]
            /\ UNCHANGED <<usage, proc, exit_status>>
    /\ UNCHANGED <<argv, program, stages, meta_file, calls, sig_vars, pipe_vars>>

\* one sanity check of process_args: reject (syslog, usage, exit(0)) or go on
validate(f) ==
    /\ MainRuns
    /\ pc = f
    /\ IF Rejects(f, args)
       THEN /\ log' = syslog(log, logmask, "LOG_ERR", ErrMsg(f))
            /\ usage' = TRUE
            /\ Exit(0)
       ELSE /\ log' = syslog(log, logmask, "LOG_DEBUG", GotMsg(f))
            /\ pc' = AfterCheck(f)
            /\ UNCHANGED <<usage, proc, exit_status>>
    /\ UNCHANGED <<argv, args, verbosity, logmask, program, stages, meta_file, calls>>
    /\ UNCHANGED <<sig_vars, pipe_vars>>

process_args_run_num == validate("run_num")
process_args_gain == validate("gain")
process_args_data_dir == validate("data_dir")
process_args_rx_freq == validate("rx_freq")
process_args_rate == validate("rate")

\* ------------------------------------------------------------------ init
\* run() stopping the processing stage before the stream source
RunStmts_stops_swapped ==
    <<"print_meta_data", "startProcessing", "startStreaming", "loop_lock",
      "stopProcessing", "stopStreaming", "return">>

\* run() writing the metadata only after the threads were started
RunStmts_meta_late ==
    <<"startProcessing", "startStreaming", "print_meta_data", "loop_lock",
      "stopStreaming", "stopProcessing", "return">>

\* run() going through the two stop calls a second time
RunStmts_stop_again ==
    <<"print_meta_data", "startProcessing", "startStreaming", "loop_lock",
      "stopStreaming", "stopProcessing", "stopStreaming", "stopProcessing", "return">>

\* run() starting the stream source before the processing stage
RunStmts_starts_swapped ==
    <<"print_meta_data", "startStreaming", "startProcessing", "loop_lock",
      "stopStreaming", "stopProcessing", "return">>

\* run() going straight to the wait loop, without the start calls
RunStmts_starts_skipped ==
    <<"print_meta_data", "loop_lock", "stopStreaming", "stopProcessing", "return">>

\* the statements of run(), in order
RunStmts ==
    <<"print_meta_data", "startProcessing", "startStreaming", "loop_lock",
      "stopStreaming", "stopProcessing", "return">>

\* the statement of run() after statement s
After(s) == RunStmts[IndexIn(RunStmts, s) + 1]

\* the catch block leaving with exit(0), like the exits of process_args
init_catch_exit0 ==
    /\ log' = syslog(syslog(log, logmask, "LOG_INFO", "Initializing Radio"),
                     logmask, "LOG_CRIT", "No devices found!")
    /\ Exit(0)
    /\ UNCHANGED stages

\* catch(std::runtime_error): syslog(LOG_CRIT), exit(1)
init_catch ==
    /\ log' = syslog(syslog(log, logmask, "LOG_INFO", "Initializing Radio"),
                     logmask, "LOG_CRIT", "No devices found!")
    /\ Exit(1)
    /\ UNCHANGED stages

\* try { sdr = new RTT::SDR(...) } catch ...: the constructor either returns
\* or throws because no device is found
init_new_sdr ==
    /\ MainRuns
    /\ pc = "init_new_sdr"
    /\ \E found \in BOOLEAN :
         IF found
         THEN /\ log' = syslog(log, logmask, "LOG_INFO", "Initializing Radio")
              /\ stages' = stages \cup {"sdr"}
              /\ pc' = "init_new_dsp"
              /\ UNCHANGED <<proc, exit_status>>
         ELSE init_catch
    /\ UNCHANGED <<cfg_vars, program, meta_file, calls, sig_vars, pipe_vars>>

\* dsp = new RTT::DSP_V3{args.rate}; localizer = new RTT::PingLocalizer();
\* init returns and main calls run()
init_new_dsp ==
    /\ MainRuns
    /\ pc = "init_new_dsp"
    /\ stages' = stages \cup {"dsp", "localizer"}
    /\ pc' = RunStmts[1]
    /\ UNCHANGED <<cfg_vars, log, program, proc, exit_status, meta_file, calls>>
    /\ UNCHANGED <<sig_vars, pipe_vars>>

\* ------------------------------------------------------------------- run
Called(op) == [calls EXCEPT ![op] = @ + 1]

\* syslog(LOG_DEBUG, ...); print_meta_data(): the ofstream is opened, written
\* and closed; an open that fails leaves the stream in a failed state and
\* the writes do nothing
run_print_meta_data ==
    /\ MainRuns
    /\ pc = "print_meta_data"
    /\ log' = syslog(log, logmask, "LOG_DEBUG", "Printing metadata to file")
    /\ calls' = Called("print_meta_data")
    /\ \E opened \in BOOLEAN :
         meta_file' = IF opened THEN "written" ELSE "open_failed"
    /\ pc' = After("print_meta_data")
    /\ UNCHANGED <<cfg_vars, program, proc, exit_status, stages, sig_vars, pipe_vars>>

\* syslog(LOG_INFO, "Starting threads"); dsp->startProcessing(sdr_queue, ...,
\* ping_queue, ...): the processing stage starts its thread
run_startProcessing ==
    /\ MainRuns
    /\ pc = "startProcessing"
    /\ log' = syslog(log, logmask, "LOG_INFO", "Starting threads")
    /\ calls' = Called("startProcessing")
    /\ dsp_thread' = "running"
    /\ pc' = After("startProcessing")
    /\ UNCHANGED <<cfg_vars, program, proc, exit_status, stages, meta_file, sig_vars>>
    /\ UNCHANGED <<sdr_thread, stop_req, sdr_queue, ping_queue, pushed, consumed>>

\* sdr->startStreaming(sdr_queue, ..., &program_on): the stream source starts
\* its thread
run_startStreaming ==
    /\ MainRuns
    /\ pc = "startStreaming"
    /\ calls' = Called("startStreaming")
    /\ sdr_thread' = "running"
    /\ pc' = After("startStreaming")
    /\ UNCHANGED <<cfg_vars, log, program, proc, exit_status, stages, meta_file, sig_vars>>
    /\ UNCHANGED <<dsp_thread, stop_req, sdr_queue, ping_queue, pushed, consumed>>

\* std::unique_lock<std::mutex> run_lock(run_mutex): blocks until it is free
run_loop_lock ==
    /\ MainRuns
    /\ pc = "loop_lock"
    /\ run_mutex[program] = "none"
    /\ run_mutex' = [run_mutex EXCEPT ![program] = "main"]
    /\ pc' = "loop_check"
    /\ UNCHANGED <<cfg_vars, log, program, proc, exit_status, stages, meta_file, calls>>
    /\ UNCHANGED <<m_pInstance, constructed, sigint, program_on, notified, h, signals>>
    /\ UNCHANGED pipe_vars

\* if(program_on) run_var.wait_for(run_lock, 100 ms): the mutex is released
\* and the thread waits; else break: run_lock is destroyed, the loop is left
run_loop_check ==
    /\ MainRuns
    /\ pc = "loop_check"
    /\ run_mutex' = [run_mutex EXCEPT ![program] = "none"]
    /\ notified' = FALSE
    /\ pc' = IF program_on[program] THEN "wait_for" ELSE After("loop_lock")
    /\ UNCHANGED <<cfg_vars, log, program, proc, exit_status, stages, meta_file, calls>>
    /\ UNCHANGED <<m_pInstance, constructed, sigint, program_on, h, signals>>
    /\ UNCHANGED pipe_vars

\* wait_for returns: the mutex is taken again
wait_for_return ==
    /\ MainRuns
    /\ pc = "wait_for"
    /\ run_mutex[program] = "none"
    /\ run_mutex' = [run_mutex EXCEPT ![program] = "main"]
    /\ notified' = FALSE
    /\ pc' = "loop_end"
    /\ UNCHANGED <<cfg_vars, log, program, proc, exit_status, stages, meta_file, calls>>
    /\ UNCHANGED <<m_pInstance, constructed, sigint, program_on, h, signals>>
    /\ UNCHANGED pipe_vars

\* wait_for returns because notify_all woke the thread
run_wait_notified == notified /\ wait_for_return

\* a wait without a timeout (run_var.wait): nothing but a notification ends it
run_wait_untimed == FALSE /\ wait_for_return

\* wait_for returns because the 100 ms have passed
run_wait_timeout == ~notified /\ wait_for_return

\* end of one iteration of while(true): run_lock is destroyed
run_loop_end ==
    /\ MainRuns
    /\ pc = "loop_end"
    /\ run_mutex' = [run_mutex EXCEPT ![program] = "none"]
    /\ pc' = "loop_lock"
    /\ UNCHANGED <<cfg_vars, log, program, proc, exit_status, stages, meta_file, calls>>
    /\ UNCHANGED <<m_pInstance, constructed, sigint, program_on, notified, h, signals>>
    /\ UNCHANGED pipe_vars

\* the acquisition thread has been started and has not ended: it is between
\* two buffers ("running") or has a buffer in hand to push ("pushing")
SdrLives == sdr_thread \in {"running", "pushing"}

\* sdr->stopStreaming() is invoked: the acquisition thread is asked to stop
run_stopStreaming ==
    /\ MainRuns
    /\ pc = "stopStreaming"
    /\ calls' = Called("stopStreaming")
    /\ stop_req' = stop_req \cup {"sdr"}
    /\ pc' = "stopStreaming_join"
    /\ UNCHANGED <<cfg_vars, log, program, proc, exit_status, stages, meta_file, sig_vars>>
    /\ UNCHANGED <<sdr_thread, dsp_thread, sdr_queue, ping_queue, pushed, consumed>>

\* sdr->stopStreaming() returns once the acquisition thread is joined
run_stopStreaming_return ==
    /\ MainRuns
    /\ pc = "stopStreaming_join"
    /\ ~SdrLives
    /\ pc' = After("stopStreaming")
    /\ UNCHANGED <<cfg_vars, log, program, proc, exit_status, stages, meta_file, calls>>
    /\ UNCHANGED <<sig_vars, pipe_vars>>

\* dsp->stopProcessing() is invoked: the processing thread is asked to stop
run_stopProcessing ==
    /\ MainRuns
    /\ pc = "stopProcessing"
    /\ calls' = Called("stopProcessing")
    /\ stop_req' = stop_req \cup {"dsp"}
    /\ pc' = "stopProcessing_join"
    /\ UNCHANGED <<cfg_vars, log, program, proc, exit_status, stages, meta_file, sig_vars>>
    /\ UNCHANGED <<sdr_thread, dsp_thread, sdr_queue, ping_queue, pushed, consumed>>

\* dsp->stopProcessing() returns once the processing thread is joined
run_stopProcessing_return ==
    /\ MainRuns
    /\ pc = "stopProcessing_join"
    /\ dsp_thread # "running"
    /\ pc' = After("stopProcessing")
    /\ UNCHANGED <<cfg_vars, log, program, proc, exit_status, stages, meta_file, calls>>
    /\ UNCHANGED <<sig_vars, pipe_vars>>

\* run() returns and main returns 0
main_return ==
    /\ MainRuns
    /\ pc = "return"
    /\ proc' = "exited"
    /\ exit_status' = 0
    /\ pc' = "returned"
    /\ UNCHANGED <<cfg_vars, log, program, stages, meta_file, calls, sig_vars, pipe_vars>>

\* ---------------------------------------------------------------- queues
\* a container that inserts at the front (last in, first out)
QueuePush_front(q, x) == <<x>> \o q

\* std::queue: push appends at the back, front/pop take from the front
QueuePush(q, x) == Append(q, x)
QueueFront(q) == Head(q)
QueuePop(q) == Tail(q)

\* ---------------------------------------------------- acquisition thread
\* the stop flag handed to startStreaming is &program_on; stopStreaming
\* also asks the thread to stop
SdrStopSeen == ~program_on[program] \/ "sdr" \in stop_req

SdrRuns == proc = "alive" /\ h["sdr"] = "idle" /\ SdrLives

\* the acquisition thread finds the stop flag not set and receives the next
\* sample buffer from the radio
sdr_receive ==
    /\ SdrRuns
    /\ sdr_thread = "running"
    /\ ~SdrStopSeen
    /\ pushed < MaxSamples
    /\ sdr_thread' = "pushing"
    /\ UNCHANGED <<cfg_vars, log, pc, program, proc, exit_status, stages, meta_file, calls>>
    /\ UNCHANGED <<sig_vars, dsp_thread, stop_req, sdr_queue, ping_queue, pushed, consumed>>

\* the acquisition thread pushes the buffer it has received
sdr_push ==
    /\ SdrRuns
    /\ sdr_thread = "pushing"
    /\ pushed' = pushed + 1
    /\ sdr_queue' = QueuePush(sdr_queue, pushed + 1)
    /\ sdr_thread' = "running"
    /\ UNCHANGED <<cfg_vars, log, pc, program, proc, exit_status, stages, meta_file, calls>>
    /\ UNCHANGED <<sig_vars, dsp_thread, stop_req, ping_queue, consumed>>

\* the acquisition thread observes the stop flag and ends
sdr_exit ==
    /\ SdrRuns
    /\ sdr_thread = "running"
    /\ SdrStopSeen
    /\ sdr_thread' = "done"
    /\ UNCHANGED <<cfg_vars, log, pc, program, proc, exit_status, stages, meta_file, calls>>
    /\ UNCHANGED <<sig_vars, dsp_thread, stop_req, sdr_queue, ping_queue, pushed, consumed>>

\* ----------------------------------------------------- processing thread
DspRuns == proc = "alive" /\ h["dsp"] = "idle" /\ dsp_thread = "running"

\* the processing thread pops one buffer and pushes the pings it detects
dsp_process ==
    /\ DspRuns
    /\ sdr_queue # <<>>
    /\ consumed' = Append(consumed, QueueFront(sdr_queue))
    /\ sdr_queue' = QueuePop(sdr_queue)
    /\ \E ping \in BOOLEAN :
         ping_queue' = IF ping THEN QueuePush(ping_queue, QueueFront(sdr_queue))
                       ELSE ping_queue
    /\ UNCHANGED <<cfg_vars, log, pc, program, proc, exit_status, stages, meta_file, calls>>
    /\ UNCHANGED <<sig_vars, sdr_thread, dsp_thread, stop_req, pushed>>

\* the processing thread has been asked to stop and has drained the queue
dsp_exit ==
    /\ DspRuns
    /\ "dsp" \in stop_req
    /\ sdr_queue = <<>>
    /\ dsp_thread' = "done"
    /\ UNCHANGED <<cfg_vars, log, pc, program, proc, exit_status, stages, meta_file, calls>>
    /\ UNCHANGED <<sig_vars, sdr_thread, stop_req, sdr_queue, ping_queue, pushed, consumed>>

\* ----------------------------------------------------------- sig_handler
\* the owner name under which the handler running on thread t holds a mutex
HandlerOn == [main |-> "h_main", sdr |-> "h_sdr", dsp |-> "h_dsp"]

\* thread t exists and can have a signal delivered to it
ThreadExists(t) ==
    CASE t = "main" -> TRUE
      [] t = "sdr" -> SdrLives
      [] t = "dsp" -> dsp_thread = "running"

\* SIGINT is delivered to thread t, which is not already handling one
sigint_deliver(t) ==
    /\ proc = "alive"
    /\ sigint = "sig_handler"
    /\ signals < MaxSignals
    /\ ThreadExists(t)
    /\ h[t] = "idle"
    /\ h' = [h EXCEPT ![t] = "lock"]
    /\ signals' = signals + 1
    /\ UNCHANGED <<cfg_vars, log, pc, program, proc, exit_status, stages, meta_file, calls>>
    /\ UNCHANGED <<m_pInstance, constructed, sigint, program_on, run_mutex, notified>>
    /\ UNCHANGED pipe_vars

\* SDR_RECORD::instance() called from the handler, returning object o
instance(o) ==
    IF m_pInstance = NULL
    THEN /\ Construct
         /\ o = constructed + 1
         /\ m_pInstance' = o
    ELSE /\ o = m_pInstance
         /\ UNCHANGED <<constructed, log, sigint, m_pInstance>>

\* the handler going on to the write without taking run_mutex
sig_handler_lock_skipped(t) ==
    /\ proc = "alive"
    /\ h[t] = "lock"
    /\ \E o \in Objs : instance(o)
    /\ h' = [h EXCEPT ![t] = "write"]
    /\ UNCHANGED <<cfg_vars, pc, program, proc, exit_status, stages, meta_file, calls>>
    /\ UNCHANGED <<program_on, run_mutex, notified, signals, pipe_vars>>

\* line 205: lock instance()->run_mutex, which is free
sig_handler_lock(t) ==
    /\ proc = "alive"
    /\ h[t] = "lock"
    /\ \E o \in Objs :
         /\ instance(o)
         /\ run_mutex[o] = "none"
         /\ run_mutex' = [run_mutex EXCEPT ![o] = HandlerOn[t]]
    /\ h' = [h EXCEPT ![t] = "write"]
    /\ UNCHANGED <<cfg_vars, pc, program, proc, exit_status, stages, meta_file, calls>>
    /\ UNCHANGED <<program_on, notified, signals, pipe_vars>>

\* line 205 when the thread the handler interrupted already owns run_mutex:
\* locking it again is undefined; the thread blocks for ever or the lock
\* throws and the process is terminated
sig_handler_relock(t) ==
    /\ proc = "alive"
    /\ h[t] = "lock"
    /\ \E o \in Objs :
         /\ instance(o)
         /\ run_mutex[o] = t
    /\ \E outcome \in {"deadlock", "terminate"} :
         IF outcome = "deadlock"
         THEN h' = [h EXCEPT ![t] = "deadlock"] /\ UNCHANGED proc
         ELSE proc' = "aborted" /\ UNCHANGED h
    /\ UNCHANGED <<cfg_vars, pc, program, exit_status, stages, meta_file, calls>>
    /\ UNCHANGED <<program_on, run_mutex, notified, signals, pipe_vars>>

\* the handler toggling the flag (program_on = !program_on)
sig_handler_write_toggle(t) ==
    /\ proc = "alive"
    /\ h[t] = "write"
    /\ \E o \in Objs :
         /\ instance(o)
         /\ program_on' = [program_on EXCEPT ![o] = ~program_on[o]]
    /\ h' = [h EXCEPT ![t] = "unlock"]
    /\ UNCHANGED <<cfg_vars, pc, program, proc, exit_status, stages, meta_file, calls>>
    /\ UNCHANGED <<run_mutex, notified, signals, pipe_vars>>

\* line 206: instance()->program_on = 0
sig_handler_write(t) ==
    /\ proc = "alive"
    /\ h[t] = "write"
    /\ \E o \in Objs :
         /\ instance(o)
         /\ program_on' = [program_on EXCEPT ![o] = FALSE]
    /\ h' = [h EXCEPT ![t] = "unlock"]
    /\ UNCHANGED <<cfg_vars, pc, program, proc, exit_status, stages, meta_file, calls>>
    /\ UNCHANGED <<run_mutex, notified, signals, pipe_vars>>

\* line 207: run_lock.unlock()
sig_handler_unlock(t) ==
    /\ proc = "alive"
    /\ h[t] = "unlock"
    /\ run_mutex' = [o \in Objs |->
                       IF run_mutex[o] = HandlerOn[t] THEN "none" ELSE run_mutex[o]]
    /\ h' = [h EXCEPT ![t] = "notify"]
    /\ UNCHANGED <<cfg_vars, log, pc, program, proc, exit_status, stages, meta_file, calls>>
    /\ UNCHANGED <<m_pInstance, constructed, sigint, program_on, notified, signals>>
    /\ UNCHANGED pipe_vars

\* line 208: instance()->run_var.notify_all() wakes the controller if it is
\* waiting on that object's run_var
sig_handler_notify(t) ==
    /\ proc = "alive"
    /\ h[t] = "notify"
    /\ \E o \in Objs :
         /\ instance(o)
         /\ notified' = (notified \/ (o = program /\ pc = "wait_for"))
    /\ h' = [h EXCEPT ![t] = "syslog"]
    /\ UNCHANGED <<cfg_vars, pc, program, proc, exit_status, stages, meta_file, calls>>
    /\ UNCHANGED <<program_on, run_mutex, signals, pipe_vars>>

\* line 209: syslog(LOG_WARNING, ...); the handler returns
sig_handler_syslog(t) ==
    /\ proc = "alive"
    /\ h[t] = "syslog"
    /\ log' = syslog(log, logmask, "LOG_WARNING", "Caught termination signal")
    /\ h' = [h EXCEPT ![t] = "idle"]
    /\ UNCHANGED <<cfg_vars, pc, program, proc, exit_status, stages, meta_file, calls>>
    /\ UNCHANGED <<m_pInstance, constructed, sigint, program_on, run_mutex, notified>>
    /\ UNCHANGED <<signals, pipe_vars>>

\* --------------------------------------------------------- specification
MainNext ==
    \/ main_openlog
    \/ main_instance_new
    \/ main_instance_assign
    \/ process_args_parse
    \/ process_args_run_num
    \/ process_args_gain
    \/ process_args_data_dir
    \/ process_args_rx_freq
    \/ process_args_rate
    \/ init_new_sdr
    \/ init_new_dsp
    \/ run_print_meta_data
    \/ run_startProcessing
    \/ run_startStreaming
    \/ run_loop_lock
    \/ run_loop_check
    \/ run_wait_notified
    \/ run_wait_timeout
    \/ run_loop_end
    \/ run_stopStreaming
    \/ run_stopStreaming_return
    \/ run_stopProcessing
    \/ run_stopProcessing_return
    \/ main_return

SdrNext == sdr_receive \/ sdr_push \/ sdr_exit

DspNext == dsp_process \/ dsp_exit

HandlerNext(t) ==
    \/ sig_handler_lock(t)
    \/ sig_handler_relock(t)
    \/ sig_handler_write(t)
    \/ sig_handler_unlock(t)
    \/ sig_handler_notify(t)
    \/ sig_handler_syslog(t)

Next ==
    \/ MainNext
    \/ SdrNext
    \/ DspNext
    \/ \E t \in Threads : sigint_deliver(t)
    \/ \E t \in Threads : HandlerNext(t)

Spec == Init /\ [][Next]_vars

\* every thread that can run eventually runs, and a thread blocked on
\* run_mutex gets it when it is free again and again (the controller holds
\* it only for an instant between its 100 ms waits, a handler only for one
\* assignment); the delivery of signals is left to the environment
FairSpec ==
    /\ Spec
    /\ SF_vars(MainNext)
    /\ WF_vars(SdrNext)
    /\ WF_vars(DspNext)
    /\ \A t \in Threads : SF_vars(HandlerNext(t))

\* the program with only the controlling thread sure to be scheduled
MainFairSpec == Spec /\ WF_vars(MainNext)

\* ------------------------------------------------- lost wake-up variant
\* line 208 with the notification lost: notify_all wakes nobody
sig_handler_notify_lost(t) ==
    /\ proc = "alive"
    /\ h[t] = "notify"
    /\ \E o \in Objs : instance(o)
    /\ h' = [h EXCEPT ![t] = "syslog"]
    /\ UNCHANGED <<cfg_vars, pc, program, proc, exit_status, stages, meta_file, calls>>
    /\ UNCHANGED <<program_on, run_mutex, notified, signals, pipe_vars>>

LossyHandlerNext(t) == HandlerNext(t) \/ sig_handler_notify_lost(t)

LossyNext == Next \/ \E t \in Threads : sig_handler_notify_lost(t)

\* the program with every notify_all allowed to be lost; the controlling
\* thread and every running handler keep being scheduled
LossyFairSpec ==
    /\ Init /\ [][LossyNext]_vars
    /\ WF_vars(MainNext)
    /\ \A t \in Threads : WF_vars(LossyHandlerNext(t))

\* ================================================================ claims
\* the five required fields as the specification states their validity
AnyInvalid(a) ==
    \/ a.run_num = 0
    \/ a.gain < 0
    \/ a.data_dir = ""
    \/ a.rx_freq = 0
    \/ a.rate = 0

\* positions of the controlling thread before process_args has returned
InOrBeforeProcessArgs ==
    {"main", "instance", "instance_assign", "process_args",
     "run_num", "gain", "data_dir", "rx_freq", "rate"}

\* messages of the syslog calls made with priority pri
Logged(pri) == {r.msg : r \in {x \in log : x.pri = pri}}

\* C1: stopProcessing() is invoked only after stopStreaming() has been
\* invoked and has returned, the acquisition thread being stopped.
C1_StopStreamingFirst ==
    calls.stopProcessing > 0 =>
        /\ calls.stopStreaming > 0
        /\ pc \notin {"stopStreaming", "stopStreaming_join"}
        /\ sdr_thread = "done"

C1_Witness ==
    /\ calls.stopStreaming = 1
    /\ calls.stopProcessing = 1
    /\ pc = "stopProcessing_join"

\* the controlling thread is inside the wait loop of run()
InWaitLoop == pc \in {"loop_lock", "loop_check", "wait_for", "loop_end"}

\* run() has returned after both stop operations
Stopped ==
    /\ pc = "returned"
    /\ calls.stopStreaming > 0
    /\ calls.stopProcessing > 0

\* C2: a SIGINT delivered while the controller is in the wait loop leads to
\* both stages being stopped and run() returning.
C2_SigintLeadsToStopped ==
    (InWaitLoop /\ \E t \in Threads : h[t] = "lock") ~> Stopped

\* C3: the handler always gets run_mutex and completes: it is never stuck
\* on a mutex owned by the thread it interrupted, and the lock never fails.
C3_HandlerNeverStuck ==
    /\ \A t \in Threads : h[t] # "deadlock"
    /\ proc # "aborted"

\* a step of sig_handler on some thread
HandlerStep == \E t \in Threads : h[t] # "idle" /\ h'[t] # h[t]

\* C4: a step of the handler changes only program_on, run_mutex and the
\* condition variable: it makes no syslog call and constructs no object.
C4_HandlerIsMinimal ==
    [][HandlerStep => (log' = log /\ constructed' = constructed)]_vars

\* C5: with an invalid required field the process never leaves process_args
\* except by exit(0), and no stage, metadata file or thread ever exists.
C5_ValidationGate ==
    AnyInvalid(args) =>
        /\ pc \in InOrBeforeProcessArgs \cup {"exit"}
        /\ proc = "exited" => exit_status = 0
        /\ stages = {}
        /\ meta_file = "none"
        /\ sdr_thread = "none" /\ dsp_thread = "none"
        /\ \A op \in DOMAIN calls : calls[op] = 0

C5_Witness ==
    /\ args.run_num # 0 /\ args.gain >= 0 /\ args.data_dir # "" /\ args.rx_freq # 0
    /\ args.rate = 0
    /\ proc = "exited"
    /\ exit_status = 0

\* the error the specification expects for the first offending field, in
\* the order run identifier, gain, output directory, center frequency, rate
FirstOffendingError(a) ==
    IF a.run_num = 0 THEN "Must set run number"
    ELSE IF a.gain < 0 THEN "Must set gain"
    ELSE IF a.data_dir = "" THEN "Must set directory"
    ELSE IF a.rx_freq = 0 THEN "Must set freq"
    ELSE "Must set rate"

\* the fields that precede the first offending one, by their debug message
PassedBeforeFirstOffending(a) ==
    IF a.run_num = 0 THEN {}
    ELSE IF a.gain < 0 THEN {"Got run_num"}
    ELSE IF a.data_dir = "" THEN {"Got run_num", "Got gain"}
    ELSE IF a.rx_freq = 0 THEN {"Got run_num", "Got gain", "Got data_dir"}
    ELSE {"Got run_num", "Got gain", "Got data_dir", "Got rx_freq"}

\* process_args has ended the process because of a field
ValidationExit == pc = "exit" /\ ~argv.help /\ AnyInvalid(args)

\* C6: the one error reported is that of the first offending field in the
\* fixed order, and no field after it has been examined.
C6_FirstOffendingReported ==
    /\ Cardinality(Logged("LOG_ERR")) <= 1
    /\ ValidationExit =>
          /\ Logged("LOG_ERR") = {FirstOffendingError(args)}
          /\ Logged("LOG_DEBUG") = PassedBeforeFirstOffending(args)
    /\ ~AnyInvalid(args) => Logged("LOG_ERR") = {}

C6_Witness ==
    /\ ValidationExit
    /\ args.run_num # 0 /\ args.gain < 0 /\ args.rate = 0
    /\ Logged("LOG_ERR") = {"Must set gain"}

\* the stream source could not be constructed: no device was found
NoDeviceFound == "No devices found!" \in Logged("LOG_CRIT")

\* C7: when no device is found the process exits with a non-zero status and
\* nothing after the stream source is constructed, written or started.
C7_NoDeviceIsFatal ==
    NoDeviceFound =>
        /\ proc = "exited"
        /\ exit_status # 0
        /\ stages = {}
        /\ meta_file = "none"
        /\ calls.startProcessing = 0 /\ calls.startStreaming = 0
        /\ sdr_thread = "none" /\ dsp_thread = "none"

C7_Witness == NoDeviceFound /\ proc = "exited" /\ exit_status = 1

\* C8: print_meta_data() runs at most once, only with a valid configuration,
\* and has run by the time startProcessing() or startStreaming() is invoked.
C8_MetadataOnceBeforeStart ==
    /\ calls.print_meta_data <= 1
    /\ calls.print_meta_data > 0 => ~AnyInvalid(args)
    /\ (calls.startProcessing > 0 \/ calls.startStreaming > 0) =>
          (calls.print_meta_data = 1 /\ meta_file # "none")

C8_Witness ==
    /\ calls.print_meta_data = 1
    /\ calls.startProcessing = 1
    /\ calls.startStreaming = 1
    /\ pc = "returned"

\* C9: when the metadata file cannot be opened, neither thread is started.
C9_MetaOpenFailureIsFatal ==
    meta_file = "open_failed" =>
        /\ calls.startProcessing = 0
        /\ calls.startStreaming = 0
        /\ sdr_thread = "none" /\ dsp_thread = "none"

\* the buffers pushed so far, in the order of the pushes
PushedSeq == [i \in 1..pushed |-> i]

\* a sequence of buffer numbers is strictly increasing
Increasing(q) == \A i, j \in 1..Len(q) : i < j => q[i] < q[j]

C11_NoBufferLost ==
    pc \in {"return", "returned"} =>
        /\ sdr_queue = <<>>
        /\ consumed = PushedSeq
        /\ ~SdrLives

C11_Witness ==
    /\ pc = "returned"
    /\ pushed = MaxSamples
    /\ Len(consumed) = MaxSamples

\* C12: stopStreaming() and stopProcessing() are each invoked at most once,
\* however many termination signals are delivered.
C12_StopsAtMostOnce ==
    /\ calls.stopStreaming <= 1
    /\ calls.stopProcessing <= 1

C12_Witness ==
    /\ pc = "returned"
    /\ signals >= 2
    /\ calls.stopStreaming = 1
    /\ calls.stopProcessing = 1

\* C13: startStreaming() is invoked only after startProcessing(), so the
\* processing thread exists before the acquisition thread and any buffer.
C13_ProcessingStartedFirst ==
    /\ calls.startStreaming > 0 => calls.startProcessing > 0
    /\ (sdr_thread # "none" \/ pushed > 0) => dsp_thread # "none"

C13_Witness ==
    /\ calls.startProcessing = 1
    /\ calls.startStreaming = 1
    /\ pushed > 0
    /\ consumed = <<>>

\* C14: every ping pushed by the processing stage is popped by the
\* localizer, the only consumer of the ping queue: none is left in the queue
\* when the process ends.
C14_PingsReachLocalizer ==
    pc = "returned" => ping_queue = <<>>

\* C15: the SDR_RECORD constructor runs at most once, so that every
\* instance() call returns the one object.
C15_SingleInstance == constructed <= 1

\* a handler holds run_mutex of object o and is at its write (line 206)
WriterHolds(o) ==
    \E t \in Threads : h[t] = "write" /\ h'[t] = "unlock" /\ run_mutex[o] = HandlerOn[t]

\* C16: every step that changes program_on of an object is the write of a
\* handler that owns that object's run_mutex, and the wait loop tests
\* program_on only while the controlling thread owns run_mutex.
C16_ProgramOnUnderLock ==
    /\ [](pc = "loop_check" => run_mutex[program] = "main")
    /\ [][\A o \in Objs : program_on'[o] # program_on[o] => WriterHolds(o)]_vars

C16_Witness ==
    /\ pc = "loop_lock"
    /\ ~program_on[program]
    /\ \E t \in Threads : h[t] = "unlock" /\ run_mutex[program] = HandlerOn[t]

C18_ErrorsVisible == \A r \in log : r.pri = "LOG_ERR" => r.shown

\* C19: program_on of every object starts true and never goes from false
\* back to true.
C19_ProgramOnMonotonic ==
    /\ \A o \in Objs : program_on[o]
    /\ [][\A o \in Objs : ~program_on[o] => ~program_on'[o]]_vars

C19_Witness ==
    /\ pc = "returned"
    /\ signals >= 2
    /\ ~program_on[program]

\* positions of the controlling thread in init() and in run() up to the
\* second start call
BeforeWaitLoop ==
    {"process_args", "run_num", "gain", "data_dir", "rx_freq", "rate",
     "init_new_sdr", "init_new_dsp", "print_meta_data", "startProcessing",
     "startStreaming"}

\* positions of the controlling thread in the wait loop and after it
InOrAfterWaitLoop ==
    {"loop_lock", "loop_check", "wait_for", "loop_end", "stopStreaming",
     "stopStreaming_join", "stopProcessing", "stopProcessing_join", "return",
     "returned"}

\* a SIGINT has just been delivered while the controller is before its loop
SignalBeforeLoop == pc \in BeforeWaitLoop /\ \E t \in Threads : h[t] = "lock"

\* a handler has written program_on of the controller's object while the
\* controller is before its loop
WrittenBeforeLoop == pc \in BeforeWaitLoop /\ ~program_on[program]

\* an early signal neither skips startup nor lets a stage be stopped that was
\* not started, and a run() that has returned has stopped both stages
StartupAndStopsPaired ==
    /\ pc \in InOrAfterWaitLoop =>
          /\ calls.print_meta_data = 1
          /\ calls.startProcessing = 1
          /\ calls.startStreaming = 1
    /\ calls.stopStreaming > 0 => calls.startStreaming > 0
    /\ calls.stopProcessing > 0 => calls.startProcessing > 0
    /\ pc = "returned" =>
          /\ calls.stopStreaming = 1 /\ calls.stopProcessing = 1
          /\ sdr_thread = "done" /\ dsp_thread = "done"

\* the write of a handler that began after m_pInstance was assigned goes to
\* the controller's object
SignalNotLost ==
    (pc \in BeforeWaitLoop \cup InOrAfterWaitLoop
        /\ \E t \in Threads : h[t] \in {"unlock", "notify", "syslog"})
    => ~program_on[program]

====
